---- MODULE Spec2Model ----
(***************************************************************************)
(* A model of rgrep's regular-expression engine: the pattern compiler      *)
(* (Regex::try_from and its token handlers) and the evaluator              *)
(* (Regex::evaluate, evaluate_step, backtrack, RegexVal::matches).         *)
(*                                                                         *)
(* A string is a sequence of characters, a character a one-character       *)
(* string.  An Option<T> is a sequence of length at most one: None is      *)
(* << >> and Some(x) is << x >>.                                           *)
(***************************************************************************)
EXTENDS Integers, Sequences, FiniteSets

VARIABLES
    expression,       \* try_from: the pattern being compiled
    chars_iter,       \* try_from: what the Chars iterator has not yielded yet
    steps,            \* try_from: Vec<RegexStep> built so far; afterwards Regex.steps
    anchoring_start,  \* try_from: the pending anchor-start flag
    compiled,         \* Regex::new's return: "none" while compiling, "ok", or the error
    value,            \* evaluate: the line
    queue,            \* evaluate_step: VecDeque of the steps still to evaluate
    queue_size,       \* evaluate: the program's length
    regex_len,        \* evaluate_step: queue.len() on entry
    stack,            \* evaluate_step: Vec<EvaluatedStep> of the current column
    index,            \* evaluate_step: cursor into the line
    char_index,       \* evaluate_step: the starting column of the outer for
    state,            \* evaluate_step: the result flag
    pc,               \* where the program stands
    result,           \* evaluate's return: "none", "true", "false", an error, or "panic"
    regex_str,        \* run_rgrep: the pattern argument
    text,             \* run_rgrep: the text argument
    regex_vec,        \* run_rgrep: the alternatives the outer for has yet to visit
    bad_regex,        \* run_rgrep: the alternative set aside for ending in a backslash
    regex,            \* run_rgrep: the compiled program of the current alternative
    regexes,          \* run_rgrep: the strings handed to Regex::new so far, in order
    iter,             \* run_rgrep: the lines the inner for has yet to visit
    counter,          \* run_rgrep: the insertion index of the current pass
    correct_lines,    \* run_rgrep: the output list
    rpc,              \* run_rgrep: where the driver stands
    ret,              \* run_rgrep: "none", "ok", an error, or "panic"
    argv,             \* Arguments::new: the argument list the iterator was made from
    args,             \* Arguments::new: what the iterator has not yielded yet
    arg_regex,        \* Arguments::new: the local regex
    arg_path,         \* Arguments::new: the local path
    arguments,        \* Arguments::new: the Arguments returned in Ok
    apc,              \* Arguments::new: where the function stands
    aret              \* Arguments::new: "none", "ok", or the ProgramError

vars == << expression, chars_iter, steps, anchoring_start, compiled, value, queue,
           queue_size, regex_len, stack, index, char_index, state, pc, result,
           regex_str, text, regex_vec, bad_regex, regex, regexes, iter, counter,
           correct_lines, rpc, ret, argv, args, arg_regex, arg_path, arguments,
           apc, aret >>

compileVars == << expression, chars_iter, steps, anchoring_start, compiled >>
evalVars == << value, queue, queue_size, regex_len, stack, index, char_index, state, result >>
runVars == << regex_str, text, regex_vec, bad_regex, regex, regexes, iter, counter,
              correct_lines, rpc, ret >>
argVars == << argv, args, arg_regex, arg_path, arguments, apc, aret >>

(***************************************************************************)
(* Bounds of the model.                                                    *)
(***************************************************************************)
MaxPatLen == 2       \* patterns over PatChars
MaxCompileLen == 3   \* patterns over CompileChars
MaxBraceLen == 5     \* patterns over BraceChars
MaxLineLen == 3      \* lines over LineChars

(***************************************************************************)
(* Options and characters.                                                 *)
(***************************************************************************)
None == << >>
Some(x) == << x >>
IsSome(o) == Len(o) = 1
Unwrap(o) == o[1]

\* The sequences over S of length at most n.
RECURSIVE SeqsUpTo(_, _)
SeqsUpTo(S, n) ==
    IF n = 0 THEN {<< >>}
    ELSE LET P == SeqsUpTo(S, n - 1)
         IN  P \cup {Append(q, c) : q \in P, c \in S}

\* The one character of the model's alphabet that is not ASCII.
NonAscii == "U+00E9"

LowerChars == {"a","b","c","d","e","f","g","h","i","j","k","l","m",
               "n","o","p","q","r","s","t","u","v","w","x","y","z"}
UpperChars == {"A","B","C","D","E","F","G","H","I","J","K","L","M",
               "N","O","P","Q","R","S","T","U","V","W","X","Y","Z"}
DigitChars == {"0","1","2","3","4","5","6","7","8","9"}
SpaceChars == {" ", "\t"}
PunctChars == {"!","\"","#","$","%","&","'","(",")","*","+",",","-",".","/",":",";",
               "<","=",">","?","@","[","\\","]","^","_","{","|","}","~"}

\* char::is_ascii
is_ascii_char(c) == c # NonAscii

\* A gate that looks at the first code unit only.
is_ascii_first_only(s) == s = << >> \/ is_ascii_char(s[1])

\* str::is_ascii
is_ascii(s) == \A i \in 1..Len(s) : is_ascii_char(s[i])

\* char::len_utf8: U+00E9 takes two bytes.
len_utf8(c) == IF is_ascii_char(c) THEN 1 ELSE 2

\* char::to_digit(10) on the digits
to_digit(c) ==
    CASE c = "0" -> 0 [] c = "1" -> 1 [] c = "2" -> 2 [] c = "3" -> 3 [] c = "4" -> 4
      [] c = "5" -> 5 [] c = "6" -> 6 [] c = "7" -> 7 [] c = "8" -> 8 [] c = "9" -> 9

(***************************************************************************)
(* RegexClass, RegexVal, RegexRep, RegexStep.                              *)
(***************************************************************************)
\* RegexClass::matches
ClassMatches(class, c) ==
    CASE class = "Alnum" -> c \in LowerChars \cup UpperChars \cup DigitChars \cup {NonAscii}
      [] class = "Alpha" -> c \in LowerChars \cup UpperChars \cup {NonAscii}
      [] class = "Digit" -> c \in DigitChars
      [] class = "Lower" -> c \in LowerChars \cup {NonAscii}
      [] class = "Upper" -> c \in UpperChars
      [] class = "Space" -> c \in SpaceChars
      [] class = "Punct" -> c \in PunctChars

\* determinate_regex_class taking every unknown name for alpha.
determinate_regex_class_default_alpha(name) ==
    CASE name = <<"a","l","n","u","m">> -> Some("Alnum")
      [] name = <<"d","i","g","i","t">> -> Some("Digit")
      [] name = <<"l","o","w","e","r">> -> Some("Lower")
      [] name = <<"u","p","p","e","r">> -> Some("Upper")
      [] name = <<"s","p","a","c","e">> -> Some("Space")
      [] name = <<"p","u","n","c","t">> -> Some("Punct")
      [] OTHER -> Some("Alpha")

\* determinate_regex_class: Some(class), or None for an unknown name.
determinate_regex_class(name) ==
    CASE name = <<"a","l","n","u","m">> -> Some("Alnum")
      [] name = <<"a","l","p","h","a">> -> Some("Alpha")
      [] name = <<"d","i","g","i","t">> -> Some("Digit")
      [] name = <<"l","o","w","e","r">> -> Some("Lower")
      [] name = <<"u","p","p","e","r">> -> Some("Upper")
      [] name = <<"s","p","a","c","e">> -> Some("Space")
      [] name = <<"p","u","n","c","t">> -> Some("Punct")
      [] OTHER -> None

\* The variants of RegexVal; the fields a variant lacks are left blank.
Literal(c) == [kind |-> "Literal", c |-> c, class |-> "", vec |-> << >>]
Wildcard == [kind |-> "Wildcard", c |-> "", class |-> "", vec |-> << >>]
Class(k) == [kind |-> "Class", c |-> "", class |-> k, vec |-> << >>]
Bracket(v) == [kind |-> "Bracket", c |-> "", class |-> "", vec |-> v]
NotBracket(v) == [kind |-> "NotBracket", c |-> "", class |-> "", vec |-> v]

\* The variants of RegexRep, as the compiler builds and the evaluator matches them.
Exact(n) == [kind |-> "Exact", n |-> n, min |-> None, max |-> None]
Any == [kind |-> "Any", n |-> 0, min |-> None, max |-> None]
Range(min, max) == [kind |-> "Range", n |-> 0, min |-> min, max |-> max]

RegexStep(val, rep, a_start, a_end) ==
    [val |-> val, rep |-> rep, anchoring_start |-> a_start, anchoring_end |-> a_end]

EvaluatedStep(step, match_size, backtrackable) ==
    [step |-> step, match_size |-> match_size, backtrackable |-> backtrackable]

\* Whether some element of vec starts the string s (the for loops of matches).
StartsWithAny(vec, s) == \E i \in 1..Len(vec) : s # << >> /\ s[1] = vec[i]

\* RegexVal::matches: the bytes of s the atom consumes.
Matches_not_bracket_first_only(val, s) ==
    CASE val.kind = "Literal" ->
            IF s # << >> /\ s[1] = val.c THEN len_utf8(val.c) ELSE 0
      [] val.kind = "Wildcard" ->
            IF s # << >> THEN len_utf8(s[1]) ELSE 0
      [] val.kind = "Class" ->
            IF s # << >> /\ ClassMatches(val.class, s[1]) THEN len_utf8(s[1]) ELSE 0
      [] val.kind = "Bracket" ->
            IF StartsWithAny(val.vec, s) THEN len_utf8(s[1]) ELSE 0
      [] val.kind = "NotBracket" ->
            IF StartsWithAny(SubSeq(val.vec, 1, 1), s) THEN 0
            ELSE IF s # << >> THEN len_utf8(s[1]) ELSE 0
Matches(val, s) ==
    CASE val.kind = "Literal" ->
            IF s # << >> /\ s[1] = val.c THEN len_utf8(val.c) ELSE 0
      [] val.kind = "Wildcard" ->
            IF s # << >> THEN len_utf8(s[1]) ELSE 0
      [] val.kind = "Class" ->
            IF s # << >> /\ ClassMatches(val.class, s[1]) THEN len_utf8(s[1]) ELSE 0
      [] val.kind = "Bracket" ->
            IF StartsWithAny(val.vec, s) THEN len_utf8(s[1]) ELSE 0
      [] val.kind = "NotBracket" ->
            IF StartsWithAny(val.vec, s) THEN 0
            ELSE IF s # << >> THEN len_utf8(s[1]) ELSE 0

(***************************************************************************)
(* The compiler: the token handlers of Regex::try_from.  A handler returns *)
(* what it leaves behind: the steps, the iterator, the step to push (an    *)
(* Option) and the error ("" when it returns Ok).                          *)
(***************************************************************************)
InvalidRange == "Invalid regex: invalid range"
InvalidBackslash == "Invalid regex: invalid backslash"
NoAsciiCharacter == "Non-ascii characters in input"
InvalidBracket == "Invalid bracket in regex"
InvalidClass == "Invalid character class in regex"

Handled(st, it, step, err) == [steps |-> st, chars_iter |-> it, step |-> step, err |-> err]

\* steps with the repetition of its last step replaced (last.rep = rep).
SetLastRep(st, rep) == [st EXCEPT ![Len(st)].rep = rep]

\* point_char
point_char == Some(RegexStep(Wildcard, Exact(1), FALSE, FALSE))

\* wildcard_char emitting nothing when no step precedes.
wildcard_char_no_filler(st, it) ==
    IF st = << >>
    THEN Handled(st, it, None, "")
    ELSE Handled(SetLastRep(st, Any), it, None, "")

\* wildcard_char
wildcard_char(st, it) ==
    IF st = << >>
    THEN Handled(st, it, Some(RegexStep(Wildcard, Any, FALSE, FALSE)), "")
    ELSE Handled(SetLastRep(st, Any), it, None, "")

\* option_char
option_char(st, it) ==
    IF st = << >>
    THEN Handled(st, it, Some(RegexStep(Wildcard, Range(Some(0), Some(1)), FALSE, FALSE)), "")
    ELSE Handled(SetLastRep(st, Range(Some(0), Some(1))), it, None, "")

\* "+" compiled with a minimum of zero.
option_one_or_more_char_min_zero(st, it) ==
    IF st = << >>
    THEN Handled(st, it, Some(RegexStep(Wildcard, Range(Some(0), None), FALSE, FALSE)), "")
    ELSE Handled(SetLastRep(st, Range(Some(0), None)), it, None, "")

\* option_one_or_more_char
option_one_or_more_char(st, it) ==
    IF st = << >>
    THEN Handled(st, it, Some(RegexStep(Wildcard, Range(Some(1), None), FALSE, FALSE)), "")
    ELSE Handled(SetLastRep(st, Range(Some(1), None)), it, None, "")

\* The for loop of repetition_char over chars_iter.by_ref(): the locals when it ends.
RECURSIVE RepetitionScan(_, _, _, _)
RepetitionScan(it, min, count, is_comma) ==
    IF it = << >>
    THEN [chars_iter |-> it, min |-> min, count |-> count, is_comma |-> is_comma,
          is_end |-> FALSE, is_invalid |-> FALSE]
    ELSE LET c == Head(it)
             rest == Tail(it)
         IN  IF c \in DigitChars
             THEN RepetitionScan(rest, min, count * 10 + to_digit(c), is_comma)
             ELSE IF c = ","
             THEN IF is_comma
                  THEN [chars_iter |-> rest, min |-> min, count |-> count,
                        is_comma |-> is_comma, is_end |-> FALSE, is_invalid |-> TRUE]
                  ELSE IF count > 0
                       THEN RepetitionScan(rest, Some(count), 0, TRUE)
                       ELSE RepetitionScan(rest, min, count, TRUE)
             ELSE IF c = "}"
             THEN [chars_iter |-> rest, min |-> min, count |-> count,
                   is_comma |-> is_comma, is_end |-> TRUE, is_invalid |-> FALSE]
             ELSE [chars_iter |-> rest, min |-> min, count |-> count,
                   is_comma |-> is_comma, is_end |-> FALSE, is_invalid |-> TRUE]

\* The repetition the braces denote, from the locals of the scan.
RepetitionOf(sc) ==
    LET max == IF sc.count > 0 THEN Some(sc.count) ELSE None
    IN  IF ~sc.is_comma THEN Exact(sc.count) ELSE Range(sc.min, max)

\* repetition_char
repetition_char(st, it) ==
    IF st # << >>
    THEN LET sc == RepetitionScan(it, None, 0, FALSE)
         IN  IF sc.is_invalid \/ ~sc.is_end
             THEN Handled(st, sc.chars_iter, None, InvalidRange)
             ELSE Handled(SetLastRep(st, RepetitionOf(sc)), sc.chars_iter, None, "")
    ELSE Handled(st, it, None, "")

\* anchor_end_char: a wildcard filler goes in front, the anchor step is returned.
anchor_end_char(st, it) ==
    Handled(<< RegexStep(Wildcard, Any, FALSE, FALSE) >> \o st, it,
            Some(RegexStep(Wildcard, Any, FALSE, TRUE)), "")

\* The named-class loop of bracket_char: reads up to ":]".
RECURSIVE ClassScan(_, _)
ClassScan(it, class_vec) ==
    IF it = << >>
    THEN [chars_iter |-> it, class_vec |-> class_vec, end_class |-> FALSE]
    ELSE LET c == Head(it)
             rest == Tail(it)
         IN  IF c = ":"
             THEN IF rest # << >> /\ Head(rest) = "]"
                  THEN [chars_iter |-> Tail(rest), class_vec |-> class_vec, end_class |-> TRUE]
                  ELSE ClassScan(IF rest = << >> THEN rest ELSE Tail(rest),
                                 Append(class_vec, c))
             ELSE ClassScan(rest, Append(class_vec, c))

\* The set loop of bracket_char: reads up to "]", a backslash taking the next
\* character literally.
RECURSIVE BracketScan(_, _)
BracketScan(it, vec) ==
    IF it = << >>
    THEN [chars_iter |-> it, vec |-> vec, end_bracket |-> FALSE, err |-> ""]
    ELSE LET c == Head(it)
             rest == Tail(it)
         IN  IF c = "]"
             THEN [chars_iter |-> rest, vec |-> vec, end_bracket |-> TRUE, err |-> ""]
             ELSE IF c = "\\"
             THEN IF rest # << >>
                  THEN BracketScan(Tail(rest), Append(vec, Head(rest)))
                  ELSE [chars_iter |-> rest, vec |-> vec, end_bracket |-> FALSE,
                        err |-> InvalidBackslash]
             ELSE BracketScan(rest, Append(vec, c))

\* bracket_char
bracket_char(st, it) ==
    IF it = << >>
    THEN Handled(st, it, None, InvalidBracket)
    ELSE LET c == Head(it)
             negated == c = "^"
             is_regex_class == c # "^" /\ c = "["
             vec0 == IF c # "^" /\ c # "[" THEN << c >> ELSE << >>
             it1 == Tail(it)
             \* chars_iter.next() == Some(':') is evaluated only for a regex class
             class_mode == is_regex_class /\ it1 # << >> /\ Head(it1) = ":"
             it2 == IF is_regex_class /\ it1 # << >> THEN Tail(it1) ELSE it1
             cs == ClassScan(it2, << >>)
             character_class == determinate_regex_class(cs.class_vec)
             it3 == IF class_mode THEN cs.chars_iter ELSE it2
             bs == BracketScan(it3, vec0)
             val == IF class_mode THEN Class(Unwrap(character_class))
                    ELSE IF negated THEN NotBracket(bs.vec)
                    ELSE Bracket(bs.vec)
         IN  IF class_mode /\ ~cs.end_class
             THEN Handled(st, cs.chars_iter, None, InvalidClass)
             ELSE IF class_mode /\ ~IsSome(character_class)
             THEN Handled(st, cs.chars_iter, None, InvalidClass)
             ELSE IF bs.err # ""
             THEN Handled(st, bs.chars_iter, None, bs.err)
             ELSE IF ~bs.end_bracket
             THEN Handled(st, bs.chars_iter, None, InvalidBracket)
             ELSE Handled(st, bs.chars_iter, Some(RegexStep(val, Exact(1), FALSE, FALSE)), "")

\* escape_char taking a backslash at the end of the pattern as a literal backslash.
escape_char_trailing_literal(st, it) ==
    IF it # << >>
    THEN Handled(st, Tail(it), Some(RegexStep(Literal(Head(it)), Exact(1), FALSE, FALSE)), "")
    ELSE Handled(st, it, Some(RegexStep(Literal("\\"), Exact(1), FALSE, FALSE)), "")

\* escape_char
escape_char(st, it) ==
    IF it # << >>
    THEN Handled(st, Tail(it), Some(RegexStep(Literal(Head(it)), Exact(1), FALSE, FALSE)), "")
    ELSE Handled(st, it, None, InvalidBackslash)

\* regular_char
regular_char(c) == Some(RegexStep(Literal(c), Exact(1), FALSE, FALSE))

\* The match of try_from's loop body on the character c just read.
Dispatch(c, st, it) ==
    CASE c = "." -> Handled(st, it, point_char, "")
      [] c = "*" -> wildcard_char(st, it)
      [] c = "?" -> option_char(st, it)
      [] c = "+" -> option_one_or_more_char(st, it)
      [] c = "{" -> repetition_char(st, it)
      [] c = "^" -> Handled(st, it, None, "")
      [] c = "$" -> anchor_end_char(st, it)
      [] c = "[" -> bracket_char(st, it)
      [] c = "\\" -> escape_char(st, it)
      [] OTHER -> Handled(st, it, regular_char(c), "")

\* anchor_start_char: the flag after the character c.
anchor_start_char(flag, c) == flag \/ c = "^"

\* if let Some(s) = step { steps.push(s) }
PushStep(h) == IF IsSome(h.step) THEN Append(h.steps, Unwrap(h.step)) ELSE h.steps

\* The steps try_from returns once the pattern is read.
FinishSteps(st, flag) ==
    IF flag THEN Append(st, RegexStep(Wildcard, Any, TRUE, FALSE)) ELSE st

\* Regex::try_from as a function of the pattern: the steps, or the error.
RECURSIVE TryFromLoop(_, _, _)
TryFromLoop(st, it, flag) ==
    IF it = << >>
    THEN [steps |-> FinishSteps(st, flag), err |-> ""]
    ELSE LET h == Dispatch(Head(it), st, Tail(it))
         IN  IF h.err # ""
             THEN [steps |-> << >>, err |-> h.err]
             ELSE TryFromLoop(PushStep(h), h.chars_iter, anchor_start_char(flag, Head(it)))

TryFrom(e) == TryFromLoop(<< >>, e, FALSE)

(***************************************************************************)
(* try_from as a process: one action per token handler.                    *)
(***************************************************************************)
MetaChars == {".", "*", "?", "+", "{", "^", "$", "[", "\\"}

\* while let Some(c) = chars_iter.next(), with c the character read.
Reads(c) ==
    /\ pc = "try_from"
    /\ chars_iter # << >>
    /\ Head(chars_iter) = c

\* One turn of the while loop: the handler of the character read, then the push.
Turn ==
    /\ LET c == Head(chars_iter)
           h == Dispatch(c, steps, Tail(chars_iter))
       IN  /\ chars_iter' = h.chars_iter
           /\ anchoring_start' = anchor_start_char(anchoring_start, c)
           /\ IF h.err # ""
              THEN /\ compiled' = h.err
                   /\ steps' = h.steps
                   /\ pc' = "failed"
              ELSE /\ compiled' = compiled
                   /\ steps' = PushStep(h)
                   /\ pc' = pc
    /\ UNCHANGED << expression, evalVars, runVars, argVars >>

PointChar ==
    /\ Reads(".")
    /\ Turn

WildcardChar ==
    /\ Reads("*")
    /\ Turn

OptionChar ==
    /\ Reads("?")
    /\ Turn

OptionOneOrMoreChar ==
    /\ Reads("+")
    /\ Turn

RepetitionChar ==
    /\ Reads("{")
    /\ Turn

AnchorStartChar ==
    /\ Reads("^")
    /\ Turn

AnchorEndChar ==
    /\ Reads("$")
    /\ Turn

BracketChar ==
    /\ Reads("[")
    /\ Turn

EscapeChar ==
    /\ Reads("\\")
    /\ Turn

RegularChar ==
    /\ pc = "try_from"
    /\ chars_iter # << >>
    /\ Head(chars_iter) \notin MetaChars
    /\ Turn

\* The end of try_from: the anchor-start step is appended and the Regex returned.
TryFromReturn ==
    /\ pc = "try_from"
    /\ chars_iter = << >>
    /\ steps' = FinishSteps(steps, anchoring_start)
    /\ compiled' = "ok"
    /\ pc' = "compiled"
    /\ UNCHANGED << expression, chars_iter, anchoring_start, evalVars, runVars, argVars >>

NextCompile ==
    \/ PointChar
    \/ WildcardChar
    \/ OptionChar
    \/ OptionOneOrMoreChar
    \/ RepetitionChar
    \/ AnchorStartChar
    \/ AnchorEndChar
    \/ BracketChar
    \/ EscapeChar
    \/ RegularChar
    \/ TryFromReturn

(***************************************************************************)
(* The evaluator.  The locals of evaluate_step are gathered in a record    *)
(*   [queue, stack, index, char_index, state, pc, result]                  *)
(* with pc the place in the code: "for" (the head of the outer for),       *)
(* "steps" (the head of the 'steps loop), "rotate" (after the 'steps loop),*)
(* "return" (the final Ok) and "done".  A Rust panic (a slice out of       *)
(* bounds, a usize underflow, rotate_left's assertion) ends the evaluation *)
(* with result "panic".                                                    *)
(***************************************************************************)
\* &value[index..] of an ASCII line, for an index within it.
Slice(v, i) == SubSeq(v, i + 1, Len(v))

\* The while loop of backtrack, popping the evaluated steps from the top.
RECURSIVE BacktrackLoop(_, _, _)
BacktrackLoop_keeps_entry(evaluated, next, back_size) ==
    IF evaluated = << >>
    THEN [size |-> None, evaluated |-> evaluated, next |-> next]
    ELSE LET e == evaluated[Len(evaluated)]
             below == SubSeq(evaluated, 1, Len(evaluated) - 1)
         IN  IF e.backtrackable
             THEN [size |-> Some(back_size + e.match_size), evaluated |-> evaluated,
                   next |-> next]
             ELSE BacktrackLoop(below, << e.step >> \o next, back_size + e.match_size)
BacktrackLoop(evaluated, next, back_size) ==
    IF evaluated = << >>
    THEN [size |-> None, evaluated |-> evaluated, next |-> next]
    ELSE LET e == evaluated[Len(evaluated)]
             below == SubSeq(evaluated, 1, Len(evaluated) - 1)
         IN  IF e.backtrackable
             THEN [size |-> Some(back_size + e.match_size), evaluated |-> below, next |-> next]
             ELSE BacktrackLoop(below, << e.step >> \o next, back_size + e.match_size)

\* backtrack: the Option it returns, and the stack and the queue it leaves.
backtrack_push_back(current, evaluated, next) == BacktrackLoop(evaluated, next \o << current >>, 0)
backtrack(current, evaluated, next) == BacktrackLoop(evaluated, << current >> \o next, 0)

\* What one turn of the 'steps loop leaves: next is "continue" (back to the head of
\* 'steps, also after a push), "break" (break 'steps), "return" (return Ok with
\* result true) or "panic".
Outcome(q, stk, idx, st, next) ==
    [queue |-> q, stack |-> stk, index |-> idx, state |-> st, next |-> next]

\* match backtrack(step, &mut stack, queue) { Some(size) => index -= size ... }
AfterBacktrack_counts_current(step, q, stk, idx, st) ==
    LET b == backtrack(step, stk, q)
    IN  IF IsSome(b.size)
        THEN IF idx - (Unwrap(b.size) + 1) < 0
             THEN Outcome(b.next, b.evaluated, idx, st, "panic")
             ELSE Outcome(b.next, b.evaluated, idx - (Unwrap(b.size) + 1), st, "continue")
        ELSE Outcome(b.next, b.evaluated, idx, st, "break")
AfterBacktrack(step, q, stk, idx, st) ==
    LET b == backtrack(step, stk, q)
    IN  IF IsSome(b.size)
        THEN IF idx - Unwrap(b.size) < 0
             THEN Outcome(b.next, b.evaluated, idx, st, "panic")
             ELSE Outcome(b.next, b.evaluated, idx - Unwrap(b.size), st, "continue")
        ELSE Outcome(b.next, b.evaluated, idx, st, "break")

\* RegexRep::Exact(n): turn i of the for loop, then the push.
RECURSIVE ExactLoop(_, _, _, _, _, _, _, _)
ExactLoop(step, v, q, stk, idx, st, i, match_size) ==
    IF i >= step.rep.n
    THEN Outcome(q, Append(stk, EvaluatedStep(step, match_size, FALSE)), idx, st, "continue")
    ELSE IF idx > Len(v)
    THEN Outcome(q, stk, idx, st, "panic")
    ELSE LET size == Matches(step.val, Slice(v, idx))
         IN  IF size = 0
             THEN AfterBacktrack(step, q, stk, idx, st)
             ELSE IF q = << >> /\ i = step.rep.n - 1
             THEN Outcome(q, stk, idx, TRUE, "break")
             ELSE ExactLoop(step, v, q, stk, idx + size, st, i + 1, match_size + size)

\* RegexRep::Any: the while loop, one stack entry per occurrence, then the tests.
RECURSIVE AnyLoop(_, _, _, _, _, _)
AnyLoop_pushes_at_end(step, v, q, stk, idx, st) ==
    IF idx > Len(v)
    THEN Outcome(q, stk, idx, st, "panic")
    ELSE LET match_size == Matches(step.val, Slice(v, idx))
         IN  IF match_size # 0
             THEN AnyLoop(step, v, q, Append(stk, EvaluatedStep(step, match_size, TRUE)),
                          idx + match_size, st)
             ELSE IF q = << >>
             THEN Outcome(q, stk, idx, TRUE, "break")
             ELSE Outcome(q, Append(stk, EvaluatedStep(step, 0, TRUE)), idx, st, "continue")
AnyLoop(step, v, q, stk, idx, st) ==
    IF idx > Len(v)
    THEN Outcome(q, stk, idx, st, "panic")
    ELSE LET match_size == Matches(step.val, Slice(v, idx))
         IN  IF match_size # 0
             THEN AnyLoop(step, v, q, Append(stk, EvaluatedStep(step, match_size, TRUE)),
                          idx + match_size, st)
             ELSE IF q = << >>
             THEN Outcome(q, stk, idx, TRUE, "break")
             ELSE Outcome(q, stk, idx, st, "continue")

\* The flag a Range step is pushed with.
BacktrackStatus_absent_max_unbounded(min, max, count) ==
    IF min = Some(0) THEN TRUE
    ELSE IF IsSome(max) THEN count < Unwrap(max)
    ELSE TRUE
BacktrackStatus(min, max, count) ==
    IF min = Some(0) THEN TRUE
    ELSE IF IsSome(max) THEN count < Unwrap(max)
    ELSE FALSE

\* RegexRep::Range: after the while loop.
RangeEnd(step, q, stk, idx, st, match_size, count) ==
    IF q = << >>
    THEN Outcome(q, stk, idx, TRUE, "break")
    ELSE Outcome(q,
                 Append(stk, EvaluatedStep(step, match_size,
                                           BacktrackStatus(step.rep.min, step.rep.max, count))),
                 idx, st, "continue")

\* RegexRep::Range: the while loop.
RECURSIVE RangeLoop(_, _, _, _, _, _, _, _)
RangeLoop(step, v, q, stk, idx, st, match_size, count) ==
    IF idx > Len(v)
    THEN Outcome(q, stk, idx, st, "panic")
    ELSE LET size == Matches(step.val, Slice(v, idx))
             min == step.rep.min
             max == step.rep.max
         IN  IF size = 0
             THEN IF IsSome(min) /\ count < Unwrap(min)
                  THEN AfterBacktrack(step, q, stk, idx, st)
                  ELSE RangeEnd(step, q, stk, idx,
                                IF min = Some(0) THEN TRUE ELSE st, match_size, count)
             ELSE IF IsSome(max) /\ count + 1 >= Unwrap(max)
             THEN RangeEnd(step, q, stk, idx + size, st, match_size + size, count + 1)
             ELSE RangeLoop(step, v, q, stk, idx + size, st, match_size + size, count + 1)

\* The body of the 'steps loop for the step popped from the front of the queue,
\* q being the queue behind it.
EvaluateOne(step, v, q, stk, idx, st, rlen) ==
    IF step.anchoring_start
    THEN IF idx = rlen - 1
         THEN Outcome(q, stk, idx, st, "return")
         ELSE Outcome(q, stk, idx, st, "break")
    ELSE IF step.anchoring_end
    THEN IF idx = Len(v)
         THEN Outcome(q, stk, idx, st, "return")
         ELSE Outcome(q, stk, idx, st, "break")
    ELSE CASE step.rep.kind = "Exact" -> ExactLoop(step, v, q, stk, idx, st, 0, 0)
           [] step.rep.kind = "Any" -> AnyLoop(step, v, q, stk, idx, st)
           [] step.rep.kind = "Range" -> RangeLoop(step, v, q, stk, idx, st, 0, 0)

\* VecDeque::rotate_left
rotate_left(q, mid) == SubSeq(q, mid + 1, Len(q)) \o SubSeq(q, 1, mid)

\* The head of the outer for: the next starting column, or the end of the loop.
ForNextOf_inclusive(es, v) ==
    IF es.char_index <= Len(v)
    THEN [es EXCEPT !.stack = << >>, !.index = es.char_index, !.pc = "steps"]
    ELSE [es EXCEPT !.pc = "return"]
ForNextOf(es, v) ==
    IF es.char_index < Len(v)
    THEN [es EXCEPT !.stack = << >>, !.index = es.char_index, !.pc = "steps"]
    ELSE [es EXCEPT !.pc = "return"]

\* The head of the 'steps loop: pop a step and run the body, or leave the loop.
StepsOf_exhausted_is_match(es, v, rlen) ==
    IF es.queue = << >>
    THEN [es EXCEPT !.pc = "rotate", !.state = TRUE]
    ELSE LET o == EvaluateOne(Head(es.queue), v, Tail(es.queue), es.stack, es.index,
                              es.state, rlen)
         IN  [queue |-> o.queue, stack |-> o.stack, index |-> o.index,
              char_index |-> es.char_index, state |-> o.state,
              pc |-> CASE o.next = "continue" -> "steps"
                       [] o.next = "break" -> "rotate"
                       [] OTHER -> "done",
              result |-> CASE o.next = "return" -> "true"
                           [] o.next = "panic" -> "panic"
                           [] OTHER -> es.result]
StepsOf(es, v, rlen) ==
    IF es.queue = << >>
    THEN [es EXCEPT !.pc = "rotate"]
    ELSE LET o == EvaluateOne(Head(es.queue), v, Tail(es.queue), es.stack, es.index,
                              es.state, rlen)
         IN  [queue |-> o.queue, stack |-> o.stack, index |-> o.index,
              char_index |-> es.char_index, state |-> o.state,
              pc |-> CASE o.next = "continue" -> "steps"
                       [] o.next = "break" -> "rotate"
                       [] OTHER -> "done",
              result |-> CASE o.next = "return" -> "true"
                           [] o.next = "panic" -> "panic"
                           [] OTHER -> es.result]

\* After the 'steps loop: rotate the queue and go to the next column, or break.
EndColumnOf(es, qsize) ==
    IF es.queue # << >>
    THEN LET mid == qsize - Len(es.queue)
         IN  IF mid < 0 \/ mid > Len(es.queue)
             THEN [es EXCEPT !.pc = "done", !.result = "panic"]
             ELSE [es EXCEPT !.queue = rotate_left(es.queue, mid),
                             !.char_index = es.char_index + 1, !.pc = "for"]
    ELSE [es EXCEPT !.pc = "return"]

\* The final Ok(LineEvaluated { result: state, .. }).
ReturnOf(es) ==
    [es EXCEPT !.pc = "done", !.result = IF es.state THEN "true" ELSE "false"]

\* One step of evaluate_step from the place es.pc.
EvalNext(es, v, qsize, rlen) ==
    CASE es.pc = "for" -> ForNextOf(es, v)
      [] es.pc = "steps" -> StepsOf(es, v, rlen)
      [] es.pc = "rotate" -> EndColumnOf(es, qsize)
      [] es.pc = "return" -> ReturnOf(es)

\* evaluate without the corner case of the empty line.
EvaluateEntry_no_corner(st, v) ==
    IF ~is_ascii(v)
    THEN [queue |-> << >>, stack |-> << >>, index |-> 0, char_index |-> 0,
          state |-> FALSE, pc |-> "done", result |-> NoAsciiCharacter]
    ELSE [queue |-> st, stack |-> << >>, index |-> 0, char_index |-> 0,
          state |-> FALSE, pc |-> "for", result |-> "none"]

\* Regex::evaluate up to the call of evaluate_step: the ASCII gate, the queue and
\* the corner case of a one-step program on the empty line.
EvaluateEntry(st, v) ==
    IF ~is_ascii(v)
    THEN [queue |-> << >>, stack |-> << >>, index |-> 0, char_index |-> 0,
          state |-> FALSE, pc |-> "done", result |-> NoAsciiCharacter]
    ELSE LET corner == Len(st) = 1 /\ v = << >> /\ st[1].val.kind = "Wildcard"
         IN  [queue |-> IF corner THEN << >> ELSE st, stack |-> << >>, index |-> 0,
              char_index |-> 0, state |-> corner, pc |-> "for", result |-> "none"]

\* Regex::evaluate as a function of the program and the line: its result.
RECURSIVE EvalRun(_, _, _, _)
EvalRun(es, v, qsize, rlen) ==
    IF es.pc = "done" THEN es.result ELSE EvalRun(EvalNext(es, v, qsize, rlen), v, qsize, rlen)

Evaluate(st, v) ==
    LET es == EvaluateEntry(st, v)
    IN  EvalRun(es, v, Len(st), Len(es.queue))

(***************************************************************************)
(* evaluate as a process: one action per place of the code.                *)
(***************************************************************************)
LineChars == {"a", "b"}
Lines == SeqsUpTo(LineChars, MaxLineLen) \cup
         {Append(l, NonAscii) \o m : l \in SeqsUpTo(LineChars, 1), m \in SeqsUpTo(LineChars, 1)}

Locals ==
    [queue |-> queue, stack |-> stack, index |-> index, char_index |-> char_index,
     state |-> state, pc |-> pc, result |-> result]

SetLocals(es) ==
    /\ queue' = es.queue
    /\ stack' = es.stack
    /\ index' = es.index
    /\ char_index' = es.char_index
    /\ state' = es.state
    /\ pc' = es.pc
    /\ result' = es.result

\* A call of evaluate on the compiled Regex with a line.
EvaluateCall ==
    /\ pc = "compiled"
    /\ \E v \in Lines :
          LET es == EvaluateEntry(steps, v)
          IN  /\ value' = v
              /\ queue_size' = IF is_ascii(v) THEN Len(steps) ELSE queue_size
              /\ regex_len' = IF is_ascii(v) THEN Len(es.queue) ELSE regex_len
              /\ SetLocals(es)
    /\ UNCHANGED << compileVars, runVars, argVars >>

Advance ==
    /\ SetLocals(EvalNext(Locals, value, queue_size, regex_len))
    /\ UNCHANGED << compileVars, runVars, argVars, value, queue_size, regex_len >>

ForNext ==
    /\ pc = "for"
    /\ Advance

AtStep ==
    /\ pc = "steps"
    /\ queue # << >>

StepAnchorStart ==
    /\ AtStep
    /\ Head(queue).anchoring_start
    /\ Advance

StepAnchorEnd ==
    /\ AtStep
    /\ ~Head(queue).anchoring_start
    /\ Head(queue).anchoring_end
    /\ Advance

NoAnchor == ~Head(queue).anchoring_start /\ ~Head(queue).anchoring_end

StepExact ==
    /\ AtStep
    /\ NoAnchor
    /\ Head(queue).rep.kind = "Exact"
    /\ Advance

StepAny ==
    /\ AtStep
    /\ NoAnchor
    /\ Head(queue).rep.kind = "Any"
    /\ Advance

StepRange ==
    /\ AtStep
    /\ NoAnchor
    /\ Head(queue).rep.kind = "Range"
    /\ Advance

StepsExhausted ==
    /\ pc = "steps"
    /\ queue = << >>
    /\ Advance

EndColumn ==
    /\ pc = "rotate"
    /\ Advance

Return ==
    /\ pc = "return"
    /\ Advance

NextEvaluate ==
    \/ EvaluateCall
    \/ ForNext
    \/ StepAnchorStart
    \/ StepAnchorEnd
    \/ StepExact
    \/ StepAny
    \/ StepRange
    \/ StepsExhausted
    \/ EndColumn
    \/ Return

(***************************************************************************)
(* run_rgrep.  The driver calls Regex::new and Regex::evaluate as the       *)
(* functions TryFrom and Evaluate.  rpc is the place in the code: "regex"   *)
(* (the head of the outer for), "lines" (the head of the inner for),       *)
(* "done" (returned or aborted), "idle" (not called).                      *)
(***************************************************************************)
\* str::split: the pieces of s between the occurrences of sep, empty ones included.
RECURSIVE Split(_, _)
Split(s, sep) ==
    IF \A i \in 1..Len(s) : s[i] # sep
    THEN << s >>
    ELSE LET k == CHOOSE i \in 1..Len(s) : s[i] = sep /\ \A j \in 1..(i - 1) : s[j] # sep
         IN  << SubSeq(s, 1, k - 1) >> \o Split(SubSeq(s, k + 1, Len(s)), sep)

\* str::ends_with
ends_with(s, c) == s # << >> /\ s[Len(s)] = c

\* Vec::contains looking at the last element only.
contains_last_only(vec, x) == vec # << >> /\ vec[Len(vec)] = x

\* Vec::contains
contains(vec, x) == \E i \in 1..Len(vec) : vec[i] = x

\* Vec::push in the place of Vec::insert.
insert_at_end(vec, i, x) == Append(vec, x)

\* Vec::insert at the 0-based index i <= len.
insert(vec, i, x) == SubSeq(vec, 1, i) \o << x >> \o SubSeq(vec, i + 1, Len(vec))

\* The alternative handed to Regex::new: the one set aside, "|", the current one.
JoinedRegex(bad, r) == IF bad # << >> THEN bad \o <<"|">> \o r ELSE r

\* The outer for meets an alternative that ends with a backslash: it is set aside.
RegexEndsWithBackslash ==
    /\ rpc = "regex"
    /\ regex_vec # << >>
    /\ ends_with(Head(regex_vec), "\\")
    /\ bad_regex' = Head(regex_vec)
    /\ regex_vec' = Tail(regex_vec)
    /\ UNCHANGED << regex_str, text, regex, regexes, iter, counter, correct_lines, rpc, ret >>
    /\ UNCHANGED << compileVars, evalVars, pc, argVars >>

\* The outer for meets any other alternative: it is joined to the one set aside,
\* compiled, and the pass over the lines begins; a compile error is returned.
RegexNew ==
    /\ rpc = "regex"
    /\ regex_vec # << >>
    /\ ~ends_with(Head(regex_vec), "\\")
    /\ LET r == JoinedRegex(bad_regex, Head(regex_vec))
           c == TryFrom(r)
       IN  /\ regexes' = Append(regexes, r)
           /\ bad_regex' = << >>
           /\ regex_vec' = Tail(regex_vec)
           /\ IF c.err # ""
              THEN /\ ret' = c.err
                   /\ rpc' = "done"
                   /\ UNCHANGED << regex, iter, counter >>
              ELSE /\ regex' = c.steps
                   /\ counter' = 0
                   /\ iter' = Split(text, "\n")
                   /\ rpc' = "lines"
                   /\ ret' = ret
    /\ UNCHANGED << regex_str, text, correct_lines >>
    /\ UNCHANGED << compileVars, evalVars, pc, argVars >>

\* The inner for meets a line whose text is in the output already.
LineContained ==
    /\ rpc = "lines"
    /\ iter # << >>
    /\ contains(correct_lines, Head(iter))
    /\ counter' = counter + 1
    /\ iter' = Tail(iter)
    /\ UNCHANGED << regex_str, text, regex_vec, bad_regex, regex, regexes, correct_lines, rpc, ret >>
    /\ UNCHANGED << compileVars, evalVars, pc, argVars >>

\* The inner for meets any other line: it is evaluated, and inserted at counter
\* when it matches.  An error of evaluate is returned; Vec::insert panics when
\* the index is beyond the length.
LineEvaluate ==
    /\ rpc = "lines"
    /\ iter # << >>
    /\ ~contains(correct_lines, Head(iter))
    /\ LET line == Head(iter)
           evaluation == Evaluate(regex, line)
       IN  /\ iter' = Tail(iter)
           /\ IF evaluation = "true"
              THEN IF counter > Len(correct_lines)
                   THEN /\ ret' = "panic"
                        /\ rpc' = "done"
                        /\ UNCHANGED << correct_lines, counter >>
                   ELSE /\ correct_lines' = insert(correct_lines, counter, line)
                        /\ counter' = counter + 1
                        /\ UNCHANGED << rpc, ret >>
              ELSE IF evaluation = "false"
              THEN UNCHANGED << correct_lines, counter, rpc, ret >>
              ELSE /\ ret' = evaluation
                   /\ rpc' = "done"
                   /\ UNCHANGED << correct_lines, counter >>
    /\ UNCHANGED << regex_str, text, regex_vec, bad_regex, regex, regexes >>
    /\ UNCHANGED << compileVars, evalVars, pc, argVars >>

\* The inner for is over: back to the outer for.
LinesExhausted ==
    /\ rpc = "lines"
    /\ iter = << >>
    /\ rpc' = "regex"
    /\ UNCHANGED << regex_str, text, regex_vec, bad_regex, regex, regexes, iter, counter,
                    correct_lines, ret >>
    /\ UNCHANGED << compileVars, evalVars, pc, argVars >>

\* The outer for is over: Ok(correct_lines).
RunReturn ==
    /\ rpc = "regex"
    /\ regex_vec = << >>
    /\ ret' = "ok"
    /\ rpc' = "done"
    /\ UNCHANGED << regex_str, text, regex_vec, bad_regex, regex, regexes, iter, counter,
                    correct_lines >>
    /\ UNCHANGED << compileVars, evalVars, pc, argVars >>

NextRun ==
    \/ RegexEndsWithBackslash
    \/ RegexNew
    \/ LineContained
    \/ LineEvaluate
    \/ LinesExhausted
    \/ RunReturn

(***************************************************************************)
(* The inputs.                                                             *)
(***************************************************************************)
CompileChars == {"a", ".", "*", "?", "+", "{", "}", ",", "0", "1", "2",
                 "^", "$", "[", "]", "\\", ":"}
BraceChars == {"a", "{", "}", ",", "0", "1"}
PatChars == {"a", "b", ".", "*", "?", "+", "^", "$"}

\* An atom, then a quantifier, between a prefix and a suffix.
Atoms == {<<"a">>, <<".">>, <<"[", "a", "b", "]">>, <<"[", "^", "a", "]">>, <<"\\", "b">>}
Quantifiers == {<< >>, <<"*">>, <<"?">>, <<"+">>, <<"{", "0", ",", "}">>,
                <<"{", "0", ",", "1", "}">>, <<"{", "1", ",", "}">>, <<"{", "2", "}">>,
                <<"{", "1", ",", "2", "}">>, <<"{", ",", "2", "}">>}
Prefixes == {<< >>, <<"a">>, <<"b">>, <<"^">>}
Suffixes == {<< >>, <<"a">>, <<"b">>, <<"$">>}
QuantifiedPatterns ==
    {pre \o x \o q \o suf : pre \in Prefixes, x \in Atoms, q \in Quantifiers, suf \in Suffixes}

\* Bracket expressions, whole and cut short, after nothing or a literal and before
\* nothing, a literal or a closing bracket.
BracketBodies ==
    {<<"[", "[", ":", "a", "l", "p", "h", "a", ":", "]", "]">>,
     <<"[", "[", ":", "d", "i", "g", "i", "t", ":", "]", "]">>,
     <<"[", "[", ":", "a", "l", "f", "a", ":", "]", "]">>,
     <<"[", "[", ":", "a", "l", "p", "h", "a", ":", "]">>,
     <<"[", "[", ":", "a", "l", "p", "h", "a">>,
     <<"[", "[", ":", "a", ":", "b", ":", "]", "]">>,
     <<"[", "[", ":", ":", "]", "]">>,
     <<"[", "[", "a", "]">>,
     <<"[", "[", "\\">>,
     <<"[", "a", "b", "]">>,
     <<"[", "^", "a", "]">>,
     <<"[", "a", "\\", "]", "]">>,
     <<"[", "a", "\\", "]">>,
     <<"[", "a", "\\">>,
     <<"[", "\\", "\\">>,
     <<"[", "a">>,
     <<"[", "]">>,
     <<"[">>}
BracketPatterns ==
    {pre \o b \o suf : pre \in {<< >>, <<"a">>}, b \in BracketBodies,
                       suf \in {<< >>, <<"a">>, <<"]">>}}

CompilePatterns ==
    SeqsUpTo(CompileChars, MaxCompileLen) \cup SeqsUpTo(BraceChars, MaxBraceLen)
        \cup QuantifiedPatterns \cup BracketPatterns
\* A bracket expression and its negation, for a few sets of characters.
BracketSets == {<<"a">>, <<"b">>, <<"a", "b">>, <<"b", "a">>, <<"c">>}
InBrackets(X) == <<"[">> \o X \o <<"]">>
InNotBrackets(X) == <<"[", "^">> \o X \o <<"]">>
BracketPairs == {InBrackets(X) : X \in BracketSets} \cup {InNotBrackets(X) : X \in BracketSets}

\* A greedy step before two literals.
GreedyPatterns == {<<"a", "+", "a", "b">>, <<"a", "*", "a", "b">>,
                   <<"a", "{", "1", ",", "2", "}", "a", "b">>}

Patterns ==
    SeqsUpTo(PatChars, MaxPatLen) \cup QuantifiedPatterns \cup BracketPairs \cup GreedyPatterns

InitEval ==
    /\ value = << >>
    /\ queue = << >>
    /\ queue_size = 0
    /\ regex_len = 0
    /\ stack = << >>
    /\ index = 0
    /\ char_index = 0
    /\ state = FALSE
    /\ result = "none"

\* run_rgrep is not called.
RunIdle ==
    /\ regex_str = << >>
    /\ text = << >>
    /\ regex_vec = << >>
    /\ bad_regex = << >>
    /\ regex = << >>
    /\ regexes = << >>
    /\ iter = << >>
    /\ counter = 0
    /\ correct_lines = << >>
    /\ rpc = "idle"
    /\ ret = "none"

\* Arguments::new is not called.
ArgsIdle ==
    /\ argv = << >>
    /\ args = << >>
    /\ arg_regex = ""
    /\ arg_path = ""
    /\ arguments = [regex |-> "", path |-> ""]
    /\ apc = "idle"
    /\ aret = "none"

InitCompile ==
    /\ expression \in CompilePatterns
    /\ chars_iter = expression
    /\ steps = << >>
    /\ anchoring_start = FALSE
    /\ compiled = "none"
    /\ pc = "try_from"
    /\ InitEval
    /\ RunIdle
    /\ ArgsIdle

SpecCompile == InitCompile /\ [][NextCompile]_vars

Init ==
    /\ expression \in Patterns
    /\ chars_iter = expression
    /\ steps = << >>
    /\ anchoring_start = FALSE
    /\ compiled = "none"
    /\ pc = "try_from"
    /\ InitEval
    /\ RunIdle
    /\ ArgsIdle

Next == NextCompile \/ NextEvaluate

Spec == Init /\ [][Next]_vars

\* The patterns of the fair specification.  The anchored ones: a quantified atom
\* after ^, before $, or both.  The ones that backtrack: a quantified atom before
\* a literal, and a greedy step before two literals.  And the empty pattern,
\* whose program has no step at all.
BacktrackPatterns ==
    {x \o q \o suf : x \in {<<"a">>, <<".">>}, q \in Quantifiers, suf \in {<<"a">>, <<"b">>}}
        \cup GreedyPatterns

AnchoredPatterns ==
    {pre \o x \o q \o suf : pre \in {<<"^">>}, x \in Atoms, q \in Quantifiers,
                            suf \in {<< >>, <<"$">>}}
        \cup {x \o q \o <<"$">> : x \in Atoms, q \in Quantifiers}

LivePatterns == AnchoredPatterns \cup BacktrackPatterns \cup {<< >>}

InitLive ==
    /\ expression \in LivePatterns
    /\ chars_iter = expression
    /\ steps = << >>
    /\ anchoring_start = FALSE
    /\ compiled = "none"
    /\ pc = "try_from"
    /\ InitEval
    /\ RunIdle
    /\ ArgsIdle

\* Compiling and evaluating run on one thread with nothing to wait for: a step
\* that can be taken is taken.
SpecLive == InitLive /\ [][Next]_vars /\ WF_vars(Next)

\* The inputs of run_rgrep: alternatives and lines of one letter, in every order
\* and with repeats; and patterns over letters, pipes and backslashes on a few texts.
MaxAlternatives == 3   \* alternatives of a pattern of letters
MaxTextLines == 4      \* lines of a text of letters
MaxPipePatLen == 4     \* patterns over PipeChars

RECURSIVE Join(_, _)
Join(ss, sep) ==
    IF ss = << >> THEN << >>
    ELSE IF Len(ss) = 1 THEN ss[1]
    ELSE ss[1] \o << sep >> \o Join(Tail(ss), sep)

Letters == {<<"a">>, <<"b">>, <<"c">>}
LetterPatterns == {Join(alts, "|") : alts \in SeqsUpTo(Letters, MaxAlternatives) \ {<< >>}}
LetterTexts == {Join(ls, "\n") : ls \in SeqsUpTo(Letters, MaxTextLines)}
PipeChars == {"a", "b", "|", "\\"}
PipePatterns ==
    SeqsUpTo(PipeChars, MaxPipePatLen)
        \cup {<<"[">>, <<"a", "|", "[">>, <<".", "*">>, <<"a", "+", "|", "b">>, <<"b", "|", ".">>}
PipeTexts ==
    {<<"a", "\n", "b">>,
     <<"a", "\n">>,
     <<"a", "|", "b", "\n", "a", "b", "\n", "b", "|", "a">>,
     <<"a", "\n", NonAscii, "\n", "b">>,
     <<NonAscii, "a", "\n", "b">>,
     <<"b", "\n", "a", "\n", "a", "\n", "a", "b">>,
     <<"a", "\\", "\n", "\n", "b", "\n">>}
RunInputs == (LetterPatterns \X LetterTexts) \cup (PipePatterns \X PipeTexts)

InitRun ==
    /\ \E input \in RunInputs : regex_str = input[1] /\ text = input[2]
    /\ regex_vec = Split(regex_str, "|")
    /\ bad_regex = << >>
    /\ regex = << >>
    /\ regexes = << >>
    /\ iter = << >>
    /\ counter = 0
    /\ correct_lines = << >>
    /\ rpc = "regex"
    /\ ret = "none"
    /\ expression = << >>
    /\ chars_iter = << >>
    /\ steps = << >>
    /\ anchoring_start = FALSE
    /\ compiled = "none"
    /\ pc = "idle"
    /\ InitEval
    /\ ArgsIdle

SpecRun == InitRun /\ [][NextRun]_vars

(***************************************************************************)
(* Arguments::new (lib.rs).  The iterator is a sequence of strings; next() *)
(* yields its head and leaves its tail, or yields None at the end.         *)
(***************************************************************************)
ArgumentMissing == "Invalid arguments: regex and path missing"
PathMissing == "Invalid arguments: path missing"
InvalidAmountOfArguments == "Invalid amount of arguments"

IteratorNext(it) ==
    IF it = << >> THEN [item |-> None, rest |-> it]
    ELSE [item |-> Some(Head(it)), rest |-> Tail(it)]

\* args.next();
ArgsSkipProgramName ==
    /\ apc = "skip"
    /\ args' = IteratorNext(args).rest
    /\ apc' = "regex"
    /\ UNCHANGED << argv, arg_regex, arg_path, arguments, aret >>
    /\ UNCHANGED << compileVars, evalVars, pc, runVars >>

\* let regex = match args.next() { Some(arg) => arg, None => return Err(ArgumentMissing) };
ArgsRegex ==
    /\ apc = "regex"
    /\ args' = IteratorNext(args).rest
    /\ IF IsSome(IteratorNext(args).item)
          THEN /\ arg_regex' = Unwrap(IteratorNext(args).item)
               /\ apc' = "path"
               /\ UNCHANGED aret
          ELSE /\ aret' = ArgumentMissing
               /\ apc' = "done"
               /\ UNCHANGED arg_regex
    /\ UNCHANGED << argv, arg_path, arguments >>
    /\ UNCHANGED << compileVars, evalVars, pc, runVars >>

\* let path = match args.next() { Some(arg) => arg, None => return Err(PathMissing) };
ArgsPath_argument_missing ==
    /\ apc = "path"
    /\ args' = IteratorNext(args).rest
    /\ IF IsSome(IteratorNext(args).item)
          THEN /\ arg_path' = Unwrap(IteratorNext(args).item)
               /\ apc' = "extra"
               /\ UNCHANGED aret
          ELSE /\ aret' = ArgumentMissing
               /\ apc' = "done"
               /\ UNCHANGED arg_path
    /\ UNCHANGED << argv, arg_regex, arguments >>
    /\ UNCHANGED << compileVars, evalVars, pc, runVars >>
ArgsPath ==
    /\ apc = "path"
    /\ args' = IteratorNext(args).rest
    /\ IF IsSome(IteratorNext(args).item)
          THEN /\ arg_path' = Unwrap(IteratorNext(args).item)
               /\ apc' = "extra"
               /\ UNCHANGED aret
          ELSE /\ aret' = PathMissing
               /\ apc' = "done"
               /\ UNCHANGED arg_path
    /\ UNCHANGED << argv, arg_regex, arguments >>
    /\ UNCHANGED << compileVars, evalVars, pc, runVars >>

\* if args.next().is_some() { return Err(InvalidAmountOfArguments); }
ArgsExtra ==
    /\ apc = "extra"
    /\ args' = IteratorNext(args).rest
    /\ IF IsSome(IteratorNext(args).item)
          THEN /\ aret' = InvalidAmountOfArguments
               /\ apc' = "done"
          ELSE /\ apc' = "ok"
               /\ UNCHANGED aret
    /\ UNCHANGED << argv, arg_regex, arg_path, arguments >>
    /\ UNCHANGED << compileVars, evalVars, pc, runVars >>

\* Ok(Arguments { regex, path })
ArgsOk ==
    /\ apc = "ok"
    /\ arguments' = [regex |-> arg_regex, path |-> arg_path]
    /\ aret' = "ok"
    /\ apc' = "done"
    /\ UNCHANGED << argv, args, arg_regex, arg_path >>
    /\ UNCHANGED << compileVars, evalVars, pc, runVars >>

NextArgs ==
    \/ ArgsSkipProgramName
    \/ ArgsRegex
    \/ ArgsPath
    \/ ArgsExtra
    \/ ArgsOk

MaxArgs == 4   \* arguments of a command line, the program name included

ArgStrings == {"rgrep", "a+b", "res/test0.txt"}

InitArgs ==
    /\ argv \in SeqsUpTo(ArgStrings, MaxArgs)
    /\ args = argv
    /\ arg_regex = ""
    /\ arg_path = ""
    /\ arguments = [regex |-> "", path |-> ""]
    /\ apc = "skip"
    /\ aret = "none"
    /\ expression = << >>
    /\ chars_iter = << >>
    /\ steps = << >>
    /\ anchoring_start = FALSE
    /\ compiled = "none"
    /\ pc = "idle"
    /\ InitEval
    /\ RunIdle

SpecArgs == InitArgs /\ [][NextArgs]_vars

(***************************************************************************)
(* The reference meaning of a program, as the claims state it: each step   *)
(* consumes a number of consecutive code units that its repetition allows, *)
(* each of them accepted by its atom.                                      *)
(***************************************************************************)
\* Whether the repetition allows n occurrences.
Allows(rep, n) ==
    CASE rep.kind = "Exact" -> n = rep.n
      [] rep.kind = "Any" -> TRUE
      [] rep.kind = "Range" ->
            /\ IsSome(rep.min) => n >= Unwrap(rep.min)
            /\ IsSome(rep.max) => n <= Unwrap(rep.max)

\* The atom accepts the code unit at column j (0-based) of the line.
Accepts(val, v, j) == j < Len(v) /\ Matches(val, Slice(v, j)) # 0

\* The columns where one step may end when it begins at column k.
StepEnds(step, v, k) ==
    {k + n : n \in {m \in 0..(Len(v) - k) :
                        /\ Allows(step.rep, m)
                        /\ \A j \in k..(k + m - 1) : Accepts(step.val, v, j)}}

\* The columns where the steps sts, taken in order, may end when they begin at k.
RECURSIVE RefEnds(_, _, _)
RefEnds(sts, v, k) ==
    IF sts = << >> THEN {k}
    ELSE UNION {RefEnds(Tail(sts), v, e) : e \in StepEnds(Head(sts), v, k)}

IsAnchor(step) == step.anchoring_start \/ step.anchoring_end
NonAnchorSteps(sts) == SelectSeq(sts, LAMBDA x : ~IsAnchor(x))
AnchorFree(sts) == \A i \in 1..Len(sts) : ~IsAnchor(sts[i])

\* Some starting column lets every non-anchor step consume.
RefMatches(sts, v) == \E k \in 0..Len(v) : RefEnds(NonAnchorSteps(sts), v, k) # {}

\* evaluate has returned a LineResult for the compiled program.
Evaluated == pc = "done" /\ compiled = "ok"
Matched == result = "true"

(***************************************************************************)
(* The claims.                                                             *)
(***************************************************************************)
\* C1: evaluate(P, l).matched holds iff some starting column k in [0, len(l)] and
\* some allowed repetition count per non-anchor step let the steps consume
\* consecutive code units of l from k, each accepted by the step's atom.  Stated
\* here for the non-empty programs without anchor steps on the non-empty ASCII
\* lines, where neither the anchors, nor the columns the evaluator visits on an
\* empty line, nor the empty program play a part.
C1_MatchedIffSomeColumnConsumes ==
    (Evaluated /\ is_ascii(value) /\ value # << >> /\ steps # << >> /\ AnchorFree(steps)
        /\ result # "panic")
        => (Matched <=> RefMatches(steps, value))

\* C2: evaluate returns a LineResult and never aborts: the rotation amount never
\* exceeds the queue length, and every slice of the line is within bounds.
C2_EvaluateNeverAborts == result # "panic"

\* The pattern is "^" followed by an anchor-free pattern X that compiles.
AnchorFreePattern(x) == \A i \in 1..Len(x) : x[i] \notin {"^", "$"}
StartAnchored(e) == e # << >> /\ Head(e) = "^" /\ AnchorFreePattern(Tail(e))
EndAnchored(e) ==
    e # << >> /\ e[Len(e)] = "$" /\ AnchorFreePattern(SubSeq(e, 1, Len(e) - 1))

\* C3: evaluate(compile("^X"), l).matched holds iff a match of X begins at column 0
\* of l (X anchor-free, l ASCII; stated on the non-empty lines).
C3_StartAnchorIffMatchAtColumnZero ==
    (Evaluated /\ is_ascii(value) /\ value # << >> /\ StartAnchored(expression)
        /\ result # "panic")
        => (Matched <=> RefEnds(TryFrom(Tail(expression)).steps, value, 0) # {})

\* C4: evaluate(compile("X$"), l).matched holds iff a match of X ends exactly at the
\* end of l (X anchor-free, l ASCII; stated on the non-empty lines).
C4_EndAnchorIffMatchEndsAtEol ==
    (Evaluated /\ is_ascii(value) /\ value # << >> /\ EndAnchored(expression)
        /\ result # "panic")
        => (Matched <=>
                \E k \in 0..Len(value) :
                    Len(value) \in RefEnds(TryFrom(SubSeq(expression, 1, Len(expression) - 1)).steps,
                                           value, k))

\* The line holds a code unit that is not ASCII.
HasNonAscii(v) == \E i \in 1..Len(v) : v[i] = NonAscii

\* The locals of evaluate_step are as before the call: no step was evaluated.
NoStepEvaluated ==
    /\ queue = << >>
    /\ stack = << >>
    /\ queue_size = 0
    /\ regex_len = 0
    /\ index = 0
    /\ char_index = 0
    /\ state = FALSE

\* C5: on a line with a non-ASCII code unit evaluate returns NoAsciiCharacter, and
\* does so before any step of the program is evaluated; on an ASCII line it never
\* returns that error.
C5_AsciiGate ==
    pc = "done" =>
        /\ (result = NoAsciiCharacter) <=> HasNonAscii(value)
        /\ HasNonAscii(value) => NoStepEvaluated

C5_Witness ==
    /\ pc = "done"
    /\ HasNonAscii(value)
    /\ Len(value) > 1
    /\ steps # << >>
    /\ result = NoAsciiCharacter

\* C6: on the empty line the patterns "*", "?" and "+" each give matched = true.
C6_EmptyLineLoneQuantifier ==
    (Evaluated /\ value = << >> /\ expression \in {<<"*">>, <<"?">>, <<"+">>})
        => Matched

C6_Witness ==
    /\ Evaluated
    /\ value = << >>
    /\ expression = <<"+">>
    /\ steps = << RegexStep(Wildcard, Range(Some(1), None), FALSE, FALSE) >>
    /\ Matched

\* C7: x{1,} and x+ placed in the same surrounding pattern give the same evaluate
\* result on every line (a{1,} and a+ among them).
OneOrMoreBraces == <<"{", "1", ",", "}">>
C7_PlusIsBraceOneOrMore ==
    pc = "done" =>
        \A pre \in Prefixes, x \in Atoms, suf \in Suffixes :
            expression = pre \o x \o <<"+">> \o suf =>
                LET c == TryFrom(pre \o x \o OneOrMoreBraces \o suf)
                IN  /\ c.err = ""
                    /\ result = Evaluate(c.steps, value)

C7_Witness ==
    /\ Evaluated
    /\ expression = <<"a", "+", "b">>
    /\ value = <<"a", "a", "b">>
    /\ Matched
    /\ Evaluate(TryFrom(<<"a">> \o OneOrMoreBraces \o <<"b">>).steps, value) = "true"

\* C8: compile("a{0,1}") is the same program as compile("a?") and compile("a{0,}")
\* the same program as compile("a*").
C8_ZeroLowerBoundIsSugar ==
    pc = "compiled" =>
        /\ expression = <<"a", "{", "0", ",", "1", "}">> => steps = TryFrom(<<"a", "?">>).steps
        /\ expression = <<"a", "{", "0", ",", "}">> => steps = TryFrom(<<"a", "*">>).steps

\* The decimal numeral of n < 100.
Digit(d) == CHOOSE c \in DigitChars : to_digit(c) = d
Numeral(n) == IF n < 10 THEN << Digit(n) >> ELSE << Digit(n \div 10), Digit(n % 10) >>
BraceCounts == {0, 1, 10, 11}
Braced(body) == <<"a", "{">> \o body \o <<"}">>
OneStep(rep) == << RegexStep(Literal("a"), rep, FALSE, FALSE) >>

\* C9: a brace expression after a step rewrites the step's repetition: {n} to
\* Exact(n), {n,} to Range{Some(n), None}, {,m} to Range{None, Some(m)} and {n,m}
\* to Range{Some(n), Some(m)}, for every n and m, 0 included.
C9_BracesRewriteRepetition ==
    pc = "compiled" =>
        \A n \in BraceCounts, m \in BraceCounts :
            /\ expression = Braced(Numeral(n)) => steps = OneStep(Exact(n))
            /\ expression = Braced(Numeral(n) \o <<",">>)
                   => steps = OneStep(Range(Some(n), None))
            /\ expression = Braced(<<",">> \o Numeral(m))
                   => steps = OneStep(Range(None, Some(m)))
            /\ expression = Braced(Numeral(n) \o <<",">> \o Numeral(m))
                   => steps = OneStep(Range(Some(n), Some(m)))

\* From column j on, digits and at most one comma lead to the closing brace.
RECURSIVE BraceCloses(_, _, _)
BraceCloses(e, j, commas) ==
    IF j > Len(e) THEN FALSE
    ELSE IF e[j] \in DigitChars THEN BraceCloses(e, j + 1, commas)
    ELSE IF e[j] = "," THEN commas = 0 /\ BraceCloses(e, j + 1, 1)
    ELSE e[j] = "}"

MalformedBrace(e) == \E i \in 1..Len(e) : e[i] = "{" /\ ~BraceCloses(e, i + 1, 0)

\* C10: a pattern in which a "{" is followed by something other than digits, a single
\* "," and the closing "}", or that ends before the "}", fails with InvalidRange,
\* wherever the "{" occurs.  Stated for the patterns over BraceChars, which hold
\* neither an escape nor a bracket expression.
C10_MalformedBraceIsInvalidRange ==
    (/\ pc \in {"compiled", "failed"}
     /\ \A i \in 1..Len(expression) : expression[i] \in BraceChars
     /\ MalformedBrace(expression))
        => compiled = InvalidRange

\* The number of backslashes that end the pattern.
RECURSIVE TrailingBackslashes(_)
TrailingBackslashes(e) ==
    IF e = << >> \/ e[Len(e)] # "\\" THEN 0
    ELSE 1 + TrailingBackslashes(SubSeq(e, 1, Len(e) - 1))

\* try_from is about to read a backslash as a token of its own.
EscapeRead == pc = "try_from" /\ chars_iter # << >> /\ Head(chars_iter) = "\\"

\* What the claim says of a backslash that is read as a token: at the end of the
\* pattern the compilation fails with InvalidBackslash, before a code unit c it
\* pushes Literal(c) with Exact(1) and consumes c, whatever c is.
EscapeOutcome ==
    IF Len(chars_iter) = 1
    THEN compiled' = InvalidBackslash /\ pc' = "failed"
    ELSE /\ steps' = Append(steps, RegexStep(Literal(chars_iter[2]), Exact(1), FALSE, FALSE))
         /\ chars_iter' = SubSeq(chars_iter, 3, Len(chars_iter))
         /\ compiled' = compiled
         /\ pc' = "try_from"

\* C11 as stated: compile fails with InvalidBackslash, returning no program, for
\* every pattern whose last code unit is an unpaired backslash.
C11_TrailingBackslashAlwaysInvalidBackslash ==
    (pc \in {"compiled", "failed"} /\ TrailingBackslashes(expression) % 2 = 1)
        => (pc = "failed" /\ compiled = InvalidBackslash)

\* C11 as amended: whenever the compiler reads a backslash as a token (the pattern
\* before it compiled without error and left no bracket or brace expression open),
\* a backslash at the end of the pattern fails with InvalidBackslash and returns
\* no program, and a backslash followed by a code unit c yields a Literal(c) step
\* with Exact(1), whatever c's meta status.
C11_BackslashReadAsToken == [][EscapeRead => EscapeOutcome]_vars

C11_Witness ==
    /\ expression = <<"a", "\\">>
    /\ pc = "failed"
    /\ compiled = InvalidBackslash

\* try_from is about to read a "[" as a token of its own; what follows it.
BracketRead == pc = "try_from" /\ chars_iter # << >> /\ Head(chars_iter) = "["
AfterBracket == Tail(chars_iter)

\* The expression opens with "[[:"; the places of ":]" after it; the name between.
OpensClass(it) == Len(it) >= 2 /\ it[1] = "[" /\ it[2] = ":"
ClassEnds(it) == {i \in 3..(Len(it) - 1) : it[i] = ":" /\ it[i + 1] = "]"}
ClassName(it) ==
    SubSeq(it, 3, (CHOOSE i \in ClassEnds(it) : \A j \in ClassEnds(it) : i <= j) - 1)
KnownClassNames ==
    {<<"a","l","n","u","m">>, <<"a","l","p","h","a">>, <<"d","i","g","i","t">>,
     <<"l","o","w","e","r">>, <<"u","p","p","e","r">>, <<"s","p","a","c","e">>,
     <<"p","u","n","c","t">>}
UnknownClass(it) ==
    OpensClass(it) /\ ClassEnds(it) # {} /\ ClassName(it) \notin KnownClassNames
HasClosing(it) == \E i \in 1..Len(it) : it[i] = "]"
FailsWith(err) == pc' = "failed" /\ compiled' = err

\* C12 as stated: a bracket expression that opens with "[[:" and whose name up to
\* ":]" is not a known one fails with InvalidClass, and one whose "[" ends the
\* pattern or that no closing "]" follows fails with InvalidBracket.
C12_BracketErrorsAsStated ==
    [][BracketRead =>
          /\ UnknownClass(AfterBracket) => FailsWith(InvalidClass)
          /\ ~HasClosing(AfterBracket) => FailsWith(InvalidBracket)]_vars

\* C12 as amended: an expression that opens with "[[:" fails with InvalidClass
\* when the name up to ":]" is not a known one and also when no ":]" follows; a
\* "[" that ends the pattern fails with InvalidBracket; an expression that does
\* not open with "[[:" and that no "]" follows fails with InvalidBracket, or with
\* InvalidBackslash when it ends in a backslash.  No failing case returns a program.
C12_BracketErrors ==
    [][BracketRead =>
          /\ UnknownClass(AfterBracket) => FailsWith(InvalidClass)
          /\ (OpensClass(AfterBracket) /\ ClassEnds(AfterBracket) = {})
                 => FailsWith(InvalidClass)
          /\ AfterBracket = << >> => FailsWith(InvalidBracket)
          /\ (AfterBracket # << >> /\ ~OpensClass(AfterBracket) /\ ~HasClosing(AfterBracket))
                 => \/ FailsWith(InvalidBracket)
                    \/ /\ FailsWith(InvalidBackslash)
                       /\ AfterBracket[Len(AfterBracket)] = "\\"]_vars

C12_Witness ==
    /\ expression = <<"[", "[", ":", "a", "l", "f", "a", ":", "]", "]">>
    /\ pc = "failed"
    /\ compiled = InvalidClass

\* The steps flagged anchor_start, and those flagged anchor_end.
AnchorStartSteps(sts) == {i \in 1..Len(sts) : sts[i].anchoring_start}
AnchorEndSteps(sts) == {i \in 1..Len(sts) : sts[i].anchoring_end}

\* C13: every program compile produces holds at most one step flagged anchor_start
\* and at most one step flagged anchor_end, also for patterns with several "^" or
\* several "$".
C13_AtMostOneAnchorOfEachKind ==
    pc = "compiled" =>
        /\ Cardinality(AnchorStartSteps(steps)) <= 1
        /\ Cardinality(AnchorEndSteps(steps)) <= 1

\* try_from is about to read "*", "?" or "+"; the repetition each stands for.
QuantifierRead == pc = "try_from" /\ chars_iter # << >> /\ Head(chars_iter) \in {"*", "?", "+"}
QuantifierRep(c) ==
    CASE c = "*" -> Any
      [] c = "?" -> Range(Some(0), Some(1))
      [] c = "+" -> Range(Some(1), None)

\* With no step yet the token emits one Wildcard step with its repetition;
\* otherwise it emits no step and rewrites the repetition of the last step only.
QuantifierOutcome ==
    LET rep == QuantifierRep(Head(chars_iter))
        n == Len(steps)
    IN  /\ chars_iter' = Tail(chars_iter)
        /\ pc' = "try_from"
        /\ IF steps = << >>
           THEN steps' = << RegexStep(Wildcard, rep, FALSE, FALSE) >>
           ELSE /\ Len(steps') = n
                /\ \A i \in 1..(n - 1) : steps'[i] = steps[i]
                /\ steps'[n] = [steps[n] EXCEPT !.rep = rep]

\* A pattern that begins with "*", "?" or "+" compiles to the program of the
\* pattern with "." put in front.
LeadingQuantifierIsDotQuantifier ==
    (pc = "compiled" /\ expression # << >> /\ Head(expression) \in {"*", "?", "+"})
        => LET c == TryFrom(<<".">> \o expression)
           IN  c.err = "" /\ steps = c.steps

\* C14: "*", "?" or "+" read while the program has no step emits one synthetic
\* Wildcard step with Any, Range{Some(0),Some(1)} or Range{Some(1),None}, so that
\* *X, ?X, +X compile to the program of .*X, .?X, .+X; otherwise the token emits
\* no step and only rewrites the repetition of the last step.
C14_LeadingQuantifierEmitsWildcard ==
    /\ []LeadingQuantifierIsDotQuantifier
    /\ [][QuantifierRead => QuantifierOutcome]_vars

C14_Witness ==
    /\ pc = "compiled"
    /\ expression = <<"+", "a", "?">>
    /\ steps = << RegexStep(Wildcard, Range(Some(1), None), FALSE, FALSE),
                  RegexStep(Literal("a"), Range(Some(0), Some(1)), FALSE, FALSE) >>

\* C15: a brace expression read while the program has no step emits a wildcard
\* filler step carrying the repetition the braces denote, and its contents are
\* consumed as a repetition, not as literals.
C15_LeadingBraceEmitsWildcard ==
    pc \in {"compiled", "failed"} =>
        \A n \in {1, 2, 10} :
            /\ expression = <<"{">> \o Numeral(n) \o <<"}">>
                   => (pc = "compiled" /\ steps = << RegexStep(Wildcard, Exact(n), FALSE, FALSE) >>)
            /\ expression = <<"{">> \o Numeral(n) \o <<",", "}">>
                   => (pc = "compiled"
                       /\ steps = << RegexStep(Wildcard, Range(Some(n), None), FALSE, FALSE) >>)

(***************************************************************************)
(* The claims on run_rgrep.                                                *)
(***************************************************************************)
\* run_rgrep has returned Ok(correct_lines).
Returned == rpc = "done" /\ ret = "ok"

\* The lines of the text, and the place where a line text first occurs.
TextLines == Split(text, "\n")
FirstPlace(ls, l) == CHOOSE i \in 1..Len(ls) : ls[i] = l /\ \A j \in 1..(i - 1) : ls[j] # l
InInputOrder(out, ls) ==
    \A i, j \in 1..Len(out) : i < j => FirstPlace(ls, out[i]) < FirstPlace(ls, out[j])

\* C16: run_rgrep returns the matching lines in the relative order they have in
\* the input text, whichever alternative matched each line and in whatever order
\* the alternatives are listed.
C16_OutputInInputOrder == Returned => InInputOrder(correct_lines, TextLines)

\* The first of the compiled alternatives that matches the line.
MatchedBy(k, l) == Evaluate(TryFrom(regexes[k]).steps, l) = "true"
FirstAlternative(l) ==
    CHOOSE k \in 1..Len(regexes) : MatchedBy(k, l) /\ \A h \in 1..(k - 1) : ~MatchedBy(h, l)

Visited == Len(TextLines) - Len(iter)
VisitedInOutput == Cardinality({j \in 1..Visited : contains(correct_lines, TextLines[j])})

RECURSIVE UnescapedSplit(_, _, _)
UnescapedSplit(s, i, piece) ==
    IF i > Len(s) THEN << piece >>
    ELSE IF s[i] = "|" /\ ~ends_with(piece, "\\")
    THEN << piece >> \o UnescapedSplit(s, i + 1, << >>)
    ELSE UnescapedSplit(s, i + 1, Append(piece, s[i]))

\* C18: run_rgrep splits the pattern into alternatives at every "|" that no
\* backslash immediately precedes and only there, an escaped pipe staying inside
\* its alternative, for any number of escaped pipes, consecutive ones included,
\* and no part of the pattern is dropped.  Stated for the patterns that do not
\* end in a backslash, whose last alternative has a next one to be joined to.
C18_SplitsAtUnescapedPipes ==
    (Returned /\ ~ends_with(regex_str, "\\"))
        => regexes = UnescapedSplit(regex_str, 1, << >>)

\* No line text occurs twice.
NoRepeats(out) == \A i, j \in 1..Len(out) : out[i] = out[j] => i = j

\* The inner for is at a line whose text is in the output; the line is skipped.
AtContainedLine == rpc = "lines" /\ iter # << >> /\ contains(correct_lines, Head(iter))
Skipped ==
    /\ correct_lines' = correct_lines
    /\ iter' = Tail(iter)
    /\ rpc' = "lines"
    /\ ret' = ret

\* C19: after any number of alternatives the output holds no line text twice, and
\* a line whose text is in the output is skipped without being evaluated again.
C19_NoLineTwice ==
    /\ []NoRepeats(correct_lines)
    /\ [][AtContainedLine => Skipped]_vars

C19_Witness ==
    /\ Returned
    /\ regex_str = <<"a", "|", "b">>
    /\ text = <<"a", "\n", "b", "\n", "a">>
    /\ correct_lines = << <<"a">>, <<"b">> >>

\* C20: one non-ASCII line in the text does not abort the run: run_rgrep still
\* returns the lines that match among the ASCII lines.
C20_NonAsciiLineDoesNotAbort ==
    (rpc = "done" /\ HasNonAscii(text) /\ \A k \in 1..Len(regexes) : TryFrom(regexes[k]).err = "")
        => /\ ret = "ok"
           /\ \A i \in 1..Len(TextLines) :
                  (is_ascii(TextLines[i]) /\ \E k \in 1..Len(regexes) : MatchedBy(k, TextLines[i]))
                      => contains(correct_lines, TextLines[i])

\* The text ends with a line feed and has no other empty line.
EndsWithLineFeedOnly(t) ==
    /\ ends_with(t, "\n")
    /\ \A i \in 1..(Len(Split(t, "\n")) - 1) : Split(t, "\n")[i] # << >>

\* C21: when the text ends with a line feed, the empty string after it is not
\* passed to the evaluator and never appears in the output, whatever the pattern.
C21_TrailingEmptyLineNotInOutput ==
    (rpc = "done" /\ EndsWithLineFeedOnly(text)) => ~contains(correct_lines, << >>)

\* The alternatives of the pattern, and the first of them that does not compile.
Alternatives == UnescapedSplit(regex_str, 1, << >>)
InvalidAlternatives == {k \in 1..Len(Alternatives) : TryFrom(Alternatives[k]).err # ""}
FirstInvalid == CHOOSE k \in InvalidAlternatives : \A h \in InvalidAlternatives : k <= h

\* C22: if an alternative of the pattern is not a valid pattern (a final one that
\* ends in a lone backslash included), run_rgrep returns that alternative's error
\* and no list of lines, even when earlier alternatives matched lines.  Stated
\* for the runs that no line aborted.
C22_CompileErrorIsFatal ==
    (rpc = "done" /\ InvalidAlternatives # {} /\ ret \notin {"panic", NoAsciiCharacter})
        => ret = TryFrom(Alternatives[FirstInvalid]).err

\* C23: Arguments::new skips the program name and then returns ArgumentMissing
\* when no further argument exists, PathMissing when exactly one exists,
\* InvalidAmountOfArguments when more than two exist, and Ok{regex, path} with
\* the first and second argument when exactly two exist.
C23_ArgumentsOutcome ==
    apc = "done" =>
        /\ Len(argv) <= 1 => aret = ArgumentMissing
        /\ Len(argv) = 2 => aret = PathMissing
        /\ Len(argv) > 3 => aret = InvalidAmountOfArguments
        /\ Len(argv) = 3 => /\ aret = "ok"
                            /\ arguments = [regex |-> argv[2], path |-> argv[3]]
        /\ aret # "ok" => arguments = [regex |-> "", path |-> ""]

C23_Witness ==
    apc = "done" /\ Len(argv) = 3 /\ aret = "ok" /\ argv[2] # argv[3]

\* The pattern evaluated is [X] or [^X], and the line is ASCII and not empty.
BracketPairEvaluated(X) ==
    /\ Evaluated
    /\ expression \in {InBrackets(X), InNotBrackets(X)}
    /\ value # << >>
    /\ is_ascii(value)

\* The other pattern of the pair.
Complement(X) == IF expression = InBrackets(X) THEN InNotBrackets(X) ELSE InBrackets(X)

\* At column i of the line exactly one of Bracket(X) and NotBracket(X) consumes.
ExactlyOneConsumes(X, i) ==
    (Matches(Bracket(X), Slice(value, i)) > 0) # (Matches(NotBracket(X), Slice(value, i)) > 0)

\* C24: for every non-empty ASCII line and every set X, at each column of the
\* line exactly one of the atoms Bracket(X) and NotBracket(X) consumes the code
\* unit there, and hence [X] or [^X] matches the line.
C24_BracketAndNotBracketComplementary ==
    \A X \in BracketSets :
        BracketPairEvaluated(X) =>
            /\ steps = << RegexStep(IF expression = InBrackets(X) THEN Bracket(X)
                                    ELSE NotBracket(X), Exact(1), FALSE, FALSE) >>
            /\ \A i \in 0..(Len(value) - 1) : ExactlyOneConsumes(X, i)
            /\ Matched \/ Evaluate(TryFrom(Complement(X)).steps, value) = "true"

C24_Witness ==
    /\ BracketPairEvaluated(<<"a", "b">>)
    /\ expression = InNotBrackets(<<"a", "b">>)
    /\ value = <<"b", "a">>
    /\ ~Matched

\* A step that repeats greedily, and a program where such a step has a later step.
Greedy(step) == step.rep.kind \in {"Any", "Range"}
GreedyBeforeLater(sts) == \E i \in 1..(Len(sts) - 1) : Greedy(sts[i])

\* C25: when a greedy step (Any or Range) has consumed code units a later step
\* needs, the evaluator releases them occurrence by occurrence, so the line is
\* matched whenever some repetition count within the step's bounds lets all the
\* steps match (pattern a+ab on a line containing aab).
C25_GreedyStepBacktracks ==
    (/\ Evaluated
     /\ is_ascii(value)
     /\ AnchorFree(steps)
     /\ GreedyBeforeLater(steps)
     /\ RefMatches(steps, value)) => Matched

\* A Range step whose minimum is at least one, and a program made of such steps
\* and of Exact steps only, one Range at least.
RangeAtLeastOne(step) ==
    step.rep.kind = "Range" /\ IsSome(step.rep.min) /\ Unwrap(step.rep.min) >= 1
ExactOrRangeAtLeastOne(sts) ==
    /\ \A i \in 1..Len(sts) : sts[i].rep.kind = "Exact" \/ RangeAtLeastOne(sts[i])
    /\ \E i \in 1..Len(sts) : RangeAtLeastOne(sts[i])

\* C26: in every evaluation that returns matched = true, each Range step with
\* minimum m accounts for at least m consecutive occurrences of its atom in the
\* matched text, also after a backtrack: with m >= 1 it is never treated as
\* having matched zero occurrences.  Stated for the lines that are not empty.
C26_RangeKeepsItsMinimum ==
    (/\ Evaluated
     /\ is_ascii(value)
     /\ value # << >>
     /\ AnchorFree(steps)
     /\ ExactOrRangeAtLeastOne(steps)
     /\ Matched) => RefMatches(steps, value)

\* The result flag of evaluate_step is raised by this step.
StateRaised == ~state /\ state'

\* C27: evaluate returns matched = true only if the queue of remaining steps
\* became empty right after a step matched or an anchor step confirmed its
\* position: the flag is raised only by a step that leaves the queue empty, and
\* a LineResult true is returned only from the flag or from an anchor step.
C27_TrueOnlyWhenQueueEmptied ==
    [][/\ StateRaised => queue' = << >>
       /\ (result # "true" /\ result' = "true") =>
              \/ state
              \/ pc = "steps" /\ queue # << >> /\ IsAnchor(Head(queue))]_vars

\* evaluate_step is about to process the starting column char_index.
AtColumnStart == pc = "for" /\ char_index < Len(value)

\* C28: at the start of the processing of every starting column the queue of
\* remaining steps equals the compiled program: same steps, same order, none lost
\* or duplicated, whatever the previous columns did.
C28_QueueIsProgramAtColumnStart ==
    AtColumnStart => queue = steps

\* The sum of the widths of the entries of the stack.
RECURSIVE StackWidth(_)
StackWidth(stk) ==
    IF stk = << >> THEN 0 ELSE Head(stk).match_size + StackWidth(Tail(stk))

\* evaluate_step is about to pop a step from the queue.
AboutToPop == pc = "steps" /\ queue # << >>

\* C29: whenever a step is about to be popped from the queue during the
\* processing of starting column k, index - k equals the sum of the consumed
\* widths of the entries on the stack, also right after a backtrack triggered in
\* the middle of an Exact(n) or Range step that had matched some occurrences.
C29_IndexIsStackWidth ==
    AboutToPop => index - char_index = StackWidth(stack)

\* The step about to be popped calls backtrack before it has matched anything:
\* it needs one occurrence at least and its atom does not consume at index.
BacktrackCalled ==
    /\ AboutToPop
    /\ NoAnchor
    /\ \/ Head(queue).rep.kind = "Exact" /\ Head(queue).rep.n >= 1
       \/ RangeAtLeastOne(Head(queue))
    /\ Matches(Head(queue).val, Slice(value, index)) = 0

\* The backtrackable entries of the stack, and the topmost of them.
BacktrackableEntries == {j \in 1..Len(stack) : stack[j].backtrackable}
TopBacktrackable == CHOOSE j \in BacktrackableEntries : \A h \in BacktrackableEntries : h <= j

\* The steps of the stack entries a..b, lowest first.
StepsOfEntries(a, b) == [j \in 1..(b - a + 1) |-> stack[a + j - 1].step]

PushesOne ==
    /\ AboutToPop
    /\ NoAnchor
    /\ Len(stack') = Len(stack) + 1
    /\ SubSeq(stack', 1, Len(stack)) = stack
    /\ stack'[Len(stack')].step = Head(queue)
Pushed == stack'[Len(stack')]

\* What the steps other than Range push: Exact one entry that is not
\* backtrackable, Any one backtrackable entry per occurrence.
ExactAndAnyFlags ==
    /\ (PushesOne /\ Head(queue).rep.kind = "Exact") => ~Pushed.backtrackable
    /\ (AboutToPop /\ NoAnchor /\ Head(queue).rep.kind = "Any") =>
          /\ Len(stack') >= Len(stack)
          /\ SubSeq(stack', 1, Len(stack)) = stack
          /\ \A j \in (Len(stack) + 1)..Len(stack') :
                stack'[j].backtrackable /\ stack'[j].step = Head(queue)

AnchorTestFails ==
    /\ AboutToPop
    /\ char_index + 1 < Len(value)
    /\ IF Head(queue).anchoring_start THEN index # regex_len - 1
       ELSE Head(queue).anchoring_end /\ index # Len(value)

\* The evaluator is at the head of the outer for with the full program.  The for
\* loop only moves forward, so after a step at column k this is column k + 1.
StartsColumn == pc = "for" /\ queue = steps

\* C32: when an anchor step is reached at starting column k and its position
\* test fails, only column k fails: if k + 1 < len(line), the evaluator goes on
\* to try starting column k + 1 with the full program before returning.
C32_AnchorFailureAdvancesColumn ==
    AnchorTestFails ~> StartsColumn

\* evaluate has returned or aborted, or the pattern did not compile.
Finished == pc \in {"done", "failed"}

\* C33: evaluate terminates for every compiled program and every ASCII line:
\* within one starting column the step evaluations and backtracks are finitely
\* many, and the outer loop visits each starting column at most once (the head
\* of the for loop is reached again only with the next column).
C33_EvaluateTerminates ==
    /\ <>Finished
    /\ [][(pc # "for" /\ pc' = "for" /\ pc # "compiled") =>
             char_index' = char_index + 1]_vars

\* An evaluation has ended after a backtrack released a step in a column that is
\* not the first.
C33_Witness ==
    /\ Evaluated
    /\ is_ascii(value)
    /\ result \in {"true", "false"}
    /\ char_index >= 1
    /\ Len(queue) < Len(steps)

\* evaluate_step is inside the processing of a starting column.
InColumn == pc \in {"steps", "rotate"}

\* The entries of the stack pushed by Any steps, and the others.
AnyEntries == {j \in 1..Len(stack) : stack[j].step.rep.kind = "Any"}
OtherEntries == {j \in 1..Len(stack) : stack[j].step.rep.kind # "Any"}

\* C34 as stated: during the processing of one starting column each program step
\* pushes at most one entry on the stack, so the stack depth never exceeds the
\* program length.
C34_StackDepthWithinProgram ==
    InColumn => Len(stack) <= Len(steps)

\* C34, amended: each Exact or Range step pushes at most one entry and an Any
\* step one entry per occurrence it consumes, so the stack holds at most one
\* entry per Exact or Range step of the program plus one per code unit consumed,
\* and its depth never exceeds the program length plus the line's length.
C34_StackDepth ==
    /\ [](InColumn =>
            /\ Cardinality(OtherEntries)
                  <= Cardinality({i \in 1..Len(steps) : steps[i].rep.kind # "Any"})
            /\ \A j \in AnyEntries : stack[j].match_size >= 1
            /\ StackWidth(stack) <= Len(value) - char_index
            /\ Len(stack) <= Len(steps) + Len(value))
    /\ [][(AboutToPop /\ NoAnchor /\ Head(queue).rep.kind # "Any") =>
             Len(stack') <= Len(stack) + 1]_vars

\* An Any step has pushed more entries than the program has steps.
C34_Witness ==
    /\ InColumn
    /\ Cardinality(AnyEntries) > Len(steps)
    /\ OtherEntries = {}

\* The program has exactly one step and its atom is Wildcard.
LoneWildcard(sts) == Len(sts) = 1 /\ sts[1].val.kind = "Wildcard"

\* C35: on the empty line evaluate returns matched = true if and only if the
\* program has exactly one step and that step's atom is Wildcard, whatever its
\* repetition or anchor flag; for every other program, the ones that can match
\* zero code units included, it returns matched = false, and no starting column
\* is processed.
C35_EmptyLine ==
    /\ (Evaluated /\ value = << >>) =>
          /\ result \in {"true", "false"}
          /\ Matched <=> LoneWildcard(steps)
    /\ (compiled = "ok" /\ value = << >>) => pc \notin {"steps", "rotate"}

\* A program that can match zero code units was evaluated on the empty line.
C35_Witness ==
    /\ Evaluated
    /\ value = << >>
    /\ Len(steps) = 1
    /\ steps[1].rep.kind = "Any"
    /\ steps[1].val.kind = "Literal"
    /\ ~Matched

\* run_rgrep is about to insert a newly matched line.
AboutToInsert ==
    /\ rpc = "lines"
    /\ iter # << >>
    /\ ~contains(correct_lines, Head(iter))
    /\ Evaluate(regex, Head(iter)) = "true"

\* C36: run_rgrep never aborts on the list insertion: for every pattern and
\* every text, texts where the same line occurs several times included, the
\* insertion position counter is at most the length of the output list whenever
\* a newly matched line is inserted.
C36_InsertWithinBounds ==
    AboutToInsert => counter <= Len(correct_lines)

\* Every alternative compiles and every line is ASCII.
AllCompileAllAscii ==
    /\ InvalidAlternatives = {}
    /\ \A i \in 1..Len(TextLines) : is_ascii(TextLines[i])

\* evaluate returns matched = true for the line under some alternative.
MatchedBySome(l) ==
    \E k \in 1..Len(Alternatives) : Evaluate(TryFrom(Alternatives[k]).steps, l) = "true"

\* The output run_rgrep hands back: its list on Ok, nothing otherwise.
Output == IF ret = "ok" THEN correct_lines ELSE << >>

\* C37: when every alternative compiles and every line is ASCII, a line text of
\* the input is present in run_rgrep's output if and only if evaluate returned
\* matched = true for it under at least one alternative, and every element of
\* the output is character for character a line of the input.
C37_OutputIsTheMatchedLines ==
    (rpc = "done" /\ AllCompileAllAscii) =>
        /\ \A i \in 1..Len(TextLines) :
              contains(Output, TextLines[i]) <=> MatchedBySome(TextLines[i])
        /\ \A j \in 1..Len(Output) : contains(TextLines, Output[j])

\* C38: in every reachable state of an evaluation 0 <= index <= len(line): a
\* successful atom match never advances index past the end of the line, the
\* width subtracted after a backtrack never exceeds the width advanced since
\* the starting column, so index never drops below the starting column, and no
\* step of the 'steps loop aborts on a slice or on the subtraction.
C38_IndexWithinLine ==
    /\ [](InColumn => (0 <= char_index /\ char_index <= index /\ index <= Len(value)))
    /\ [][pc = "steps" => result' # "panic"]_vars

\* At a starting column that is not the first the cursor has reached the end of
\* the line, and the step about to be popped calls a backtrack that will release
\* width.
C38_Witness ==
    /\ BacktrackCalled
    /\ BacktrackableEntries # {}
    /\ char_index >= 1
    /\ index = Len(value)

\* run_rgrep is in the pass of an empty alternative: the string handed to
\* Regex::new last is the empty pattern.
EmptyPass == rpc = "lines" /\ regexes # << >> /\ regexes[Len(regexes)] = << >>

\* The empty pattern compiles to the empty program.
EmptyCompilesToEmpty == TryFrom(<< >>) = [steps |-> << >>, err |-> ""]

\* C39 as stated: the empty pattern compiles to the empty program, and
\* evaluating the empty program returns matched = false on every line; hence an
\* empty alternative in a piped pattern contributes no line to the output.
C39_EmptyProgramFalseOnEveryLine ==
    EmptyPass =>
        /\ EmptyCompilesToEmpty
        /\ regex = << >>
        /\ \A i \in 1..Len(TextLines) : Evaluate(regex, TextLines[i]) = "false"

\* C39, amended: the empty pattern compiles to the empty program, and
\* evaluating the empty program returns matched = false on every ASCII line (a
\* line with a non-ASCII code unit gives NoAsciiCharacter, as for every
\* program); hence an empty alternative contributes no line to the output.
C39_EmptyProgramFalseOnAsciiLines ==
    /\ [](EmptyPass =>
            /\ EmptyCompilesToEmpty
            /\ regex = << >>
            /\ \A i \in 1..Len(TextLines) :
                  Evaluate(regex, TextLines[i]) =
                      IF is_ascii(TextLines[i]) THEN "false" ELSE NoAsciiCharacter)
    /\ [][EmptyPass => correct_lines' = correct_lines]_vars

\* The pass of an empty alternative is over: it has visited every line, among
\* them a line that is neither empty nor in the output an earlier alternative
\* left.
C39_Witness ==
    /\ EmptyPass
    /\ iter = << >>
    /\ correct_lines # << >>
    /\ \E i \in 1..Len(TextLines) :
          TextLines[i] # << >> /\ ~contains(correct_lines, TextLines[i])

====
